---- MODULE Spec2Model ----
(***************************************************************************)
(* The three walkthroughs of the database tutorial as one state machine:   *)
(*   "sql"  raw sqlite3 notebook (research_articles.db)                     *)
(*   "orm"  SQLModel notebook 03 (sqlmodel_database.db)                     *)
(*   "rel"  SQLModel relationships notebook 04                              *)
(*          (sqlmodel_database_relationships.db)                            *)
(* A behaviour is one notebook kernel: cells run top to bottom, a cell     *)
(* that has completed may be run again, a cell that raises stops the run,  *)
(* and the kernel may be restarted (or die) at any point.  Tables are      *)
(* sequences of rows in insertion order, so that a key constraint is       *)
(* something the insert operators enforce and not a property of sets.      *)
(***************************************************************************)
EXTENDS Integers, Sequences, FiniteSets, TLC

VARIABLES
    nb,        \* the walkthrough this kernel runs: "sql", "orm" or "rel"
    pc,        \* index of the first cell that has not yet completed
    cell,      \* the loop cell that is executing, "none" between cells
    j,         \* position of the executing loop
    file,      \* the database file exists
    tables,    \* schema of the database file: table name -> column names
    metadata,  \* SQLModel.metadata: declared table name -> column names
    disk,      \* committed rows of the database file
    conn,      \* rows as the open connection/session sees them
    paper,     \* paper_data / recent_paper: the record loaded from JSON
    keywords,  \* notebook 04: the list `keywords` built for the current paper
    result,    \* notebook 04: what the last keyword query returned
    loads,     \* how many times the JSON file has been read by this kernel
    err,       \* exception raised by the last step, "none" if it returned
    op         \* the last step executed: the cell's name, or the step of a loop

vars == <<nb, pc, cell, j, file, tables, metadata, disk, conn, paper,
          keywords, result, loads, err, op>>

-----------------------------------------------------------------------------
(* Bounds and input domains *)

\* longest keyword list of an input paper
MaxKw == 2
\* how often one kernel reads the JSON file of a single paper (the file may
\* have changed between two reads)
MaxLoads == 2

Dois == {"d1", "d2"}
Titles == {"t1", "t2"}
\* keyword texts of the input, as sequences of characters
Texts == {<<"A">>, <<"a">>, <<"a", "b">>}
\* substrings handed to the keyword query
Patterns == {<<"a">>, <<"A">>, <<"b">>, <<"c">>, <<"_">>}

KeywordLists == UNION {[1..n -> Texts] : n \in 0..MaxKw}
\* two records with the same doi differ in their title; one such doi is enough
\* a record of the document; lacks names the field the record does not
\* have, "none" for a record that has them all
Papers == {p \in [doi : Dois, title : Titles, keywords : KeywordLists,
                  lacks : {"none"}] :
              p.doi # "d1" => p.title = "t1"}

\* the fields the loaders read from a record
Fields == {"doi", "title", "abstract", "keywords"}

\* the record p without its field f
Without(p, f) ==
    CASE f = "doi" -> [p EXCEPT !.doi = "", !.lacks = f]
      [] f = "title" -> [p EXCEPT !.title = "", !.lacks = f]
      [] f = "keywords" -> [p EXCEPT !.keywords = <<>>, !.lacks = f]
      [] OTHER -> [p EXCEPT !.lacks = f]

NoPaper == [doi |-> "", title |-> "", keywords |-> <<>>, lacks |-> "none"]
NoResult == [s |-> <<>>, rows |-> <<>>]
NoId == 0
EmptyDb == [article |-> <<>>, keyword |-> <<>>, articlekeyword |-> <<>>,
            author |-> <<>>, articleauthor |-> <<>>]
NoTables == [n \in {} |-> {}]

-----------------------------------------------------------------------------
(* Text functions *)

LowerChar(c) ==
    CASE c = "A" -> "a"
      [] c = "B" -> "b"
      [] OTHER -> c

\* str.lower()
lower(s) == [i \in 1..Len(s) |-> LowerChar(s[i])]

\* SQLite LIKE: % is any run of characters, _ is any one character, and
\* ASCII letters compare without regard to case.
RECURSIVE LikeMatch(_, _)
LikeMatch(p, t) ==
    IF p = <<>> THEN t = <<>>
    ELSE IF Head(p) = "%"
         THEN LikeMatch(Tail(p), t) \/ (t # <<>> /\ LikeMatch(p, Tail(t)))
         ELSE /\ t # <<>>
              /\ (Head(p) = "_" \/ LowerChar(Head(p)) = LowerChar(Head(t)))
              /\ LikeMatch(Tail(p), Tail(t))

\* Keyword.keyword.contains(s): keyword LIKE '%' || s || '%'
contains(col, s) == LikeMatch(<<"%">> \o s \o <<"%">>, col)

-----------------------------------------------------------------------------
(* The storage engine: one operator per INSERT, returning the exception   *)
(* ("none" if the statement ran) and the rows after the statement.        *)

Ok(db) == [err |-> "none", db |-> db]
Fail(e, db) == [err |-> e, db |-> db]

RECURSIVE MaxId(_)
MaxId(rows) ==
    IF rows = <<>> THEN 0
    ELSE LET m == MaxId(Tail(rows))
         IN  IF Head(rows).id > m THEN Head(rows).id ELSE m

\* an engine that numbers every row 1
FirstId(rows) == 1

\* INTEGER PRIMARY KEY left out of the INSERT: the engine assigns it
NextId(rows) == MaxId(rows) + 1

\* no cell issues PRAGMA foreign_keys = ON, and SQLite leaves the FOREIGN KEY
\* clauses unenforced without it
PragmaForeignKeys == FALSE

HasDoi(db, doi) == \E i \in DOMAIN db.article : db.article[i].doi = doi
HasKeywordId(db, id) == \E i \in DOMAIN db.keyword : db.keyword[i].id = id
HasKeyword(db, text) == \E i \in DOMAIN db.keyword : db.keyword[i].keyword = text
HasLink(db, doi, id) == \E i \in DOMAIN db.articlekeyword :
    /\ db.articlekeyword[i].article_doi = doi
    /\ db.articlekeyword[i].keyword_id = id

InsertArticleOrReplace(db, row) ==
    Ok([db EXCEPT !.article =
            Append(SelectSeq(@, LAMBDA r : r.doi # row.doi), row)])

\* INSERT INTO article (doi, title, ...): doi is the PRIMARY KEY
InsertArticle(db, row) ==
    IF HasDoi(db, row.doi)
    THEN Fail("IntegrityError", db)
    ELSE Ok([db EXCEPT !.article = Append(@, row)])

\* INSERT INTO keyword (keyword): id is assigned, keyword is UNIQUE
InsertKeyword(db, text) ==
    IF HasKeyword(db, text)
    THEN Fail("IntegrityError", db)
    ELSE Ok([db EXCEPT !.keyword =
                Append(@, [id |-> NextId(db.keyword), keyword |-> text])])

\* INSERT INTO keywords (keyword) of the raw-SQL walkthrough, whose CREATE
\* TABLE is left to the reader: keyword is taken as UNIQUE, the conflict the
\* walkthrough's tip on INSERT OR IGNORE speaks of
InsertRawKeyword(db, text) == InsertKeyword(db, text)

InsertArticleKeywordNoPrimaryKey(db, doi, id) ==
    Ok([db EXCEPT !.articlekeyword =
            Append(@, [article_doi |-> doi, keyword_id |-> id])])

InsertArticleKeywordOrIgnore(db, doi, id) ==
    IF HasLink(db, doi, id)
    THEN Ok(db)
    ELSE Ok([db EXCEPT !.articlekeyword =
                Append(@, [article_doi |-> doi, keyword_id |-> id])])

\* INSERT INTO articlekeyword (article_doi, keyword_id): the pair is the
\* PRIMARY KEY, each column a FOREIGN KEY
InsertArticleKeyword(db, doi, id) ==
    IF HasLink(db, doi, id)
    THEN Fail("IntegrityError", db)
    ELSE IF PragmaForeignKeys /\ ~(HasDoi(db, doi) /\ HasKeywordId(db, id))
    THEN Fail("IntegrityError", db)
    ELSE Ok([db EXCEPT !.articlekeyword =
                Append(@, [article_doi |-> doi, keyword_id |-> id])])

\* a SELECT without its WHERE clause, read from the end
LookupLastKeyword(db, text) ==
    IF db.keyword # <<>>
    THEN db.keyword[Len(db.keyword)]
    ELSE [id |-> NoId, keyword |-> text]

\* SELECT ... WHERE keyword == ?  (fetchone / one_or_none): the row, or the
\* row with id NoId when there is none
LookupKeyword(db, text) ==
    IF HasKeyword(db, text)
    THEN db.keyword[CHOOSE i \in DOMAIN db.keyword : db.keyword[i].keyword = text]
    ELSE [id |-> NoId, keyword |-> text]

-----------------------------------------------------------------------------
(* The ORM unit of work of notebook 04 *)

\* the loop over paper_data["keywords"]: lower-case, look up, reuse the row
\* found or make a new Keyword object (id None until it is flushed)
KeywordObjs(db, kws) ==
    [i \in 1..Len(kws) |->
        LET keyword == lower(kws[i])
            found == LookupKeyword(db, keyword)
        IN  IF found.id = NoId
            THEN [id |-> NoId, keyword |-> lower(keyword)]
            ELSE found]

\* INSERT of the new Keyword objects of the list, in list order; objs comes
\* back with the ids the engine assigned
RECURSIVE FlushKeywords(_, _)
FlushKeywords(db, objs) ==
    IF objs = <<>> THEN [err |-> "none", db |-> db, objs |-> <<>>]
    ELSE LET o == Head(objs)
         IN  IF o.id # NoId
             THEN LET rest == FlushKeywords(db, Tail(objs))
                  IN  [rest EXCEPT !.objs = <<o>> \o @]
             ELSE LET r == InsertKeyword(db, o.keyword)
                  IN  IF r.err # "none"
                      THEN [err |-> r.err, db |-> db, objs |-> objs]
                      ELSE LET rest == FlushKeywords(r.db, Tail(objs))
                           IN  [rest EXCEPT !.objs =
                                   <<[o EXCEPT !.id = NextId(db.keyword)]>> \o @]

\* INSERT of one articlekeyword row per element of article.keywords
RECURSIVE FlushLinks(_, _, _)
FlushLinks(db, doi, objs) ==
    IF objs = <<>> THEN Ok(db)
    ELSE LET r == InsertArticleKeyword(db, doi, Head(objs).id)
         IN  IF r.err # "none" THEN r
             ELSE FlushLinks(r.db, doi, Tail(objs))

\* session.merge(article) in place of session.add(article): a stored article
\* with the same doi gives way to the new one
MergeAndCommit(db, article, objs) ==
    LET a == InsertArticleOrReplace(db, article)
        k == FlushKeywords(a.db, objs)
    IN  IF k.err # "none" THEN Fail(k.err, db)
        ELSE LET l == FlushLinks(k.db, article.doi, k.objs)
             IN  IF l.err # "none" THEN Fail(l.err, db) ELSE l

\* the link rows written with the ids the objects had before the flush
AddAndCommitStaleIds(db, article, objs) ==
    LET a == InsertArticle(db, article)
    IN  IF a.err # "none" THEN Fail(a.err, db)
        ELSE LET k == FlushKeywords(a.db, objs)
             IN  IF k.err # "none" THEN Fail(k.err, db)
                 ELSE LET l == FlushLinks(k.db, article.doi, objs)
                      IN  IF l.err # "none" THEN Fail(l.err, db)
                          ELSE Ok(l.db)

\* a commit per row in place of one per paper: the rows written before the
\* one that fails stay
AddAndCommitPartial(db, article, objs) ==
    LET a == InsertArticle(db, article)
    IN  IF a.err # "none" THEN Fail(a.err, db)
        ELSE LET k == FlushKeywords(a.db, objs)
             IN  IF k.err # "none" THEN Fail(k.err, a.db)
                 ELSE LET l == FlushLinks(k.db, article.doi, k.objs)
                      IN  IF l.err # "none" THEN Fail(l.err, k.db)
                          ELSE Ok(l.db)

\* session.add(article); session.commit(): the article, its new keywords and
\* its link rows in one transaction, rolled back as a whole if a row fails
AddAndCommit(db, article, objs) ==
    LET a == InsertArticle(db, article)
    IN  IF a.err # "none" THEN Fail(a.err, db)
        ELSE LET k == FlushKeywords(a.db, objs)
             IN  IF k.err # "none" THEN Fail(k.err, db)
                 ELSE LET l == FlushLinks(k.db, article.doi, k.objs)
                      IN  IF l.err # "none" THEN Fail(l.err, db)
                          ELSE Ok(l.db)

KeywordOf(db, id) ==
    db.keyword[CHOOSE i \in DOMAIN db.keyword : db.keyword[i].id = id]

\* Article.keywords.any(crit): EXISTS over articlekeyword joined to keyword
AnyKeyword(db, a, s) == \E i \in DOMAIN db.articlekeyword :
    /\ db.articlekeyword[i].article_doi = a.doi
    /\ HasKeywordId(db, db.articlekeyword[i].keyword_id)
    /\ contains(KeywordOf(db, db.articlekeyword[i].keyword_id).keyword, s)

\* an inner join in place of the EXISTS: one row per matching link
RECURSIVE JoinRows(_, _, _)
JoinRows(db, links, s) ==
    IF links = <<>> THEN <<>>
    ELSE LET l == Head(links)
             hit == /\ HasDoi(db, l.article_doi)
                    /\ HasKeywordId(db, l.keyword_id)
                    /\ contains(KeywordOf(db, l.keyword_id).keyword, s)
         IN  (IF hit
              THEN <<db.article[CHOOSE i \in DOMAIN db.article :
                                    db.article[i].doi = l.article_doi]>>
              ELSE <<>>) \o JoinRows(db, Tail(links), s)

SelectArticlesJoin(db, s) == JoinRows(db, db.articlekeyword, s)

\* a result that is a cursor read to its end: the statement executed again
\* after its own execution yields nothing more
SelectArticlesOnce(db, s) ==
    IF op = "query" /\ result.s = s
    THEN <<>>
    ELSE SelectSeq(db.article, LAMBDA a : AnyKeyword(db, a, s))

\* select(Article).where(Article.keywords.any(Keyword.keyword.contains(s)))
\* followed by session.exec(stmt).all()
SelectArticles(db, s) == SelectSeq(db.article, LAMBDA a : AnyKeyword(db, a, s))

-----------------------------------------------------------------------------
(* Schema *)

ArticleColumns == {"doi", "title", "publication_year", "abstract"}
AuthorColumns == {"id", "first_name", "last_name", "affiliation"}
KeywordColumns == {"id", "keyword"}
ArticleKeywordColumns == {"article_doi", "keyword_id"}
ArticleAuthorColumns == {"article_doi", "author_id"}

\* the classes each class cell declares
ClassesOf(c) ==
    CASE c = "class_article" -> "article" :> ArticleColumns
      [] c = "class_author_keyword" ->
            ("author" :> AuthorColumns) @@ ("keyword" :> KeywordColumns)
      [] c = "class_assoc" ->
            ("articlekeyword" :> ArticleKeywordColumns)
            @@ ("articleauthor" :> ArticleAuthorColumns)
      [] c = "classes" ->
            ("articlekeyword" :> ArticleKeywordColumns)
            @@ ("articleauthor" :> ArticleAuthorColumns)
            @@ ("article" :> ArticleColumns)
            @@ ("author" :> AuthorColumns)
            @@ ("keyword" :> KeywordColumns)
      [] OTHER -> NoTables

\* __table_args__ = {"extend_existing": True}
ExtendExisting(c) == c \in {"class_assoc", "classes"}

\* the CREATE TABLE IF NOT EXISTS statements of each raw-SQL cell
StatementsOf(c) ==
    CASE c = "create_articles" ->
            "articles" :> {"DOI", "article_title", "publication_year", "abstract"}
      [] c = "create_authors" ->
            "authors" :> {"author_id", "first_name", "last_name", "affiliation"}
      [] c = "create_article_authors" ->
            "article_authors" :> {"article_id", "author_id"}
      [] c = "create_keyword_tables" ->
            ("keywords" :> {"keyword_id", "keyword"})
            @@ ("article_keywords" :> {"article_id", "keyword_id"})
      [] OTHER -> NoTables

CreateTable(tbls, defs) ==
    IF \E n \in DOMAIN defs : n \in DOMAIN tbls
    THEN [err |-> "OperationalError", tables |-> tbls]
    ELSE [err |-> "none", tables |-> tbls @@ defs]

\* a definition that conflicts with the one the store has is an error
CreateOrRaise(tbls, defs) ==
    IF \E n \in DOMAIN defs : n \in DOMAIN tbls /\ tbls[n] # defs[n]
    THEN [err |-> "OperationalError", tables |-> tbls]
    ELSE [err |-> "none", tables |-> tbls @@ defs]

\* a schema that is created as a whole or not at all: nothing is created
\* when one of its tables exists
CreateUnlessAnyExists(tbls, defs) ==
    IF \E n \in DOMAIN defs : n \in DOMAIN tbls
    THEN [err |-> "none", tables |-> tbls]
    ELSE [err |-> "none", tables |-> tbls @@ defs]

\* CREATE TABLE IF NOT EXISTS, and create_all's check of each table before
\* its CREATE TABLE: a table that exists is left as it is
CreateIfNotExists(tbls, defs) ==
    [err |-> "none", tables |-> tbls @@ defs]

\* the table of the store a table name of a walkthrough stands for
TableField(n) ==
    CASE n \in {"articles", "article"} -> "article"
      [] n \in {"authors", "author"} -> "author"
      [] n \in {"keywords", "keyword"} -> "keyword"
      [] n \in {"article_authors", "articleauthor"} -> "articleauthor"
      [] n \in {"article_keywords", "articlekeyword"} -> "articlekeyword"

\* DROP TABLE before each CREATE TABLE: the rows of the named tables are gone
DropAndCreateRows(db, defs) ==
    [f \in DOMAIN db |->
        IF \E n \in DOMAIN defs : TableField(n) = f THEN <<>> ELSE db[f]]

\* the rows after the CREATE statements for defs: a table that exists is
\* skipped and a new table starts empty, so no row changes
CreateRows(db, defs) == db

-----------------------------------------------------------------------------
(* Cells *)

CellsSql == <<"remove_db", "connect", "create_articles", "create_authors",
              "create_article_authors", "create_keyword_tables", "load",
              "insert_article", "insert_keywords", "associate">>
CellsOrm == <<"remove_db", "class_article", "engine", "create_all_a",
              "class_author_keyword", "create_all_b", "class_assoc",
              "create_all_c", "load", "insert">>
CellsRel == <<"remove_db", "classes", "create_all", "load_papers", "query">>

Cells == CASE nb = "sql" -> CellsSql
           [] nb = "orm" -> CellsOrm
           [] OTHER -> CellsRel

IndexOf(c) == CHOOSE k \in DOMAIN Cells : Cells[k] = c

\* cells that open the store: run once, at their place in the run
OnlyInOrder == {"remove_db", "connect", "engine"}

\* cell k may be started: every cell before it has completed
Startable(k) ==
    /\ cell = "none"
    /\ k \in DOMAIN Cells
    /\ k <= pc
    /\ (Cells[k] \in OnlyInOrder => k = pc)

Completed(k) == IF k = pc THEN pc + 1 ELSE pc

-----------------------------------------------------------------------------
(* Initial state: a fresh kernel, no database file *)

Init ==
    /\ nb \in {"sql", "orm", "rel"}
    /\ pc = 1
    /\ cell = "none"
    /\ j = 0
    /\ file = FALSE
    /\ tables = NoTables
    /\ metadata = NoTables
    /\ disk = EmptyDb
    /\ conn = EmptyDb
    /\ paper = NoPaper
    /\ keywords = <<>>
    /\ result = NoResult
    /\ loads = 0
    /\ err = "none"
    /\ op = "start"

-----------------------------------------------------------------------------
(* Cells of every walkthrough *)

\* a remove_db that names another file: the rows stay
RemovedOtherFile(db) == db

\* a remove_db that empties the article table and keeps the file
RemovedArticles(db) == [db EXCEPT !.article = <<>>]

\* os.remove of the database file: its rows are gone
Removed(db) == EmptyDb

\* remove_db(): delete the database file if it exists
RemoveDb ==
    \E k \in DOMAIN Cells :
        /\ Startable(k) /\ Cells[k] = "remove_db"
        /\ file' = FALSE
        /\ tables' = IF file THEN NoTables ELSE tables
        /\ disk' = IF file THEN Removed(disk) ELSE disk
        /\ conn' = IF file THEN Removed(conn) ELSE conn
        /\ pc' = Completed(k)
        /\ err' = "none"
        /\ op' = "remove_db"
        /\ UNCHANGED <<loads, nb, cell, j, metadata, paper, keywords, result>>

\* the kernel is restarted or dies: the names are gone, the open transaction
\* is never committed, the file stays as it was last committed
Restart ==
    /\ pc' = 1
    /\ cell' = "none"
    /\ j' = 0
    /\ metadata' = NoTables
    /\ conn' = disk
    /\ paper' = NoPaper
    /\ keywords' = <<>>
    /\ result' = NoResult
    /\ loads' = 0
    /\ err' = "none"
    /\ op' = "restart"
    /\ UNCHANGED <<nb, file, tables, disk>>

\* json.load and the indexing of the first paper
Load ==
    \E k \in DOMAIN Cells, p \in Papers :
        /\ Startable(k) /\ Cells[k] = "load"
        /\ loads < MaxLoads
        /\ loads' = loads + 1
        /\ paper' = p
        /\ pc' = Completed(k)
        /\ err' = "none"
        /\ op' = "load"
        /\ UNCHANGED <<nb, cell, j, file, tables, metadata, disk, conn,
                       keywords, result>>

-----------------------------------------------------------------------------
(* The raw-SQL walkthrough *)

\* sqlite3.connect('research_articles.db'); connection.cursor()
Connect ==
    \E k \in DOMAIN Cells :
        /\ Startable(k) /\ Cells[k] = "connect"
        /\ file' = TRUE
        /\ conn' = disk
        /\ pc' = Completed(k)
        /\ err' = "none"
        /\ op' = "connect"
        /\ UNCHANGED <<loads, nb, cell, j, tables, metadata, disk, paper, keywords,
                       result>>

\* cursor.execute(CREATE TABLE IF NOT EXISTS ...); connection.commit()
CreateTableCell ==
    \E k \in DOMAIN Cells :
        /\ Startable(k) /\ StatementsOf(Cells[k]) # NoTables
        /\ LET r == CreateIfNotExists(tables, StatementsOf(Cells[k]))
           IN  /\ tables' = r.tables
               /\ err' = r.err
               /\ conn' = CreateRows(conn, StatementsOf(Cells[k]))
               /\ disk' = IF r.err = "none" THEN conn' ELSE disk
               /\ pc' = IF r.err = "none" THEN Completed(k) ELSE pc
        /\ op' = Cells[k]
        /\ UNCHANGED <<loads, nb, cell, j, file, metadata, paper, keywords, result>>

\* cursor.execute(insert_article_command, ...); connection.commit()
InsertArticleCell ==
    \E k \in DOMAIN Cells :
        /\ Startable(k) /\ Cells[k] = "insert_article"
        /\ LET r == InsertArticle(conn, [doi |-> paper.doi, title |-> paper.title])
           IN  /\ conn' = r.db
               /\ err' = r.err
               /\ disk' = IF r.err = "none" THEN r.db ELSE disk
               /\ pc' = IF r.err = "none" THEN Completed(k) ELSE pc
        /\ op' = "insert_article"
        /\ UNCHANGED <<loads, nb, cell, j, file, tables, metadata, paper, keywords,
                       result>>

\* an exception caught inside the loop: the loop goes on with the next
\* element
CaughtAndContinued(c, pos, e) == [cell |-> c, j |-> pos + 1]

\* where a loop cell stands after one iteration: at the next element, or out
\* of the cell when the iteration raised (no try/except, no retry)
AfterStep(c, pos, e) ==
    IF e = "none" THEN [cell |-> c, j |-> pos + 1]
    ELSE [cell |-> "none", j |-> 0]

\* a loop cell starts: the statements before its first iteration
BeginLoop ==
    \E k \in DOMAIN Cells :
        /\ Startable(k)
        /\ Cells[k] \in {"insert_keywords", "associate", "insert", "load_papers"}
        /\ cell' = Cells[k]
        /\ j' = IF Cells[k] = "insert" THEN 0 ELSE 1
        /\ err' = "none"
        /\ op' = "begin"
        /\ UNCHANGED <<loads, nb, pc, file, tables, metadata, disk, conn, paper,
                       keywords, result>>

\* for keyword in recent_paper["keywords"]:
\*     cursor.execute(insert_keyword_command, (keyword,))
InsertKeywordStep ==
    /\ cell = "insert_keywords" /\ j <= Len(paper.keywords)
    /\ LET r == InsertRawKeyword(conn, paper.keywords[j])
       IN  /\ conn' = r.db
           /\ err' = r.err
           /\ cell' = AfterStep(cell, j, r.err).cell
           /\ j' = AfterStep(cell, j, r.err).j
    /\ op' = "insert_keyword"
    /\ UNCHANGED <<loads, nb, pc, file, tables, metadata, disk, paper, keywords, result>>

\* connection.commit() after the keyword loop
CommitKeywords ==
    /\ cell = "insert_keywords" /\ j > Len(paper.keywords)
    /\ disk' = conn
    /\ cell' = "none"
    /\ j' = 0
    /\ pc' = Completed(IndexOf(cell))
    /\ err' = "none"
    /\ op' = "commit"
    /\ UNCHANGED <<loads, nb, file, tables, metadata, conn, paper, keywords, result>>

\* for keyword in recent_paper["keywords"]:
\*     cursor.execute(query_statement, (keyword,))
\*     result = cursor.fetchone()[0]
\*     cursor.execute(associative_statement, (paper_id, result))
AssociateStep ==
    /\ cell = "associate" /\ j <= Len(paper.keywords)
    /\ LET found == LookupKeyword(conn, paper.keywords[j])
           r == IF found.id = NoId
                THEN Fail("TypeError", conn)
                ELSE InsertArticleKeyword(conn, paper.doi, found.id)
       IN  /\ conn' = r.db
           /\ err' = r.err
           /\ cell' = AfterStep(cell, j, r.err).cell
           /\ j' = AfterStep(cell, j, r.err).j
    /\ op' = "associate"
    /\ UNCHANGED <<loads, nb, pc, file, tables, metadata, disk, paper, keywords, result>>

\* the association loop is over; the cell does not commit
EndAssociate ==
    /\ cell = "associate" /\ j > Len(paper.keywords)
    /\ cell' = "none"
    /\ j' = 0
    /\ pc' = Completed(IndexOf(cell))
    /\ err' = "none"
    /\ op' = "end"
    /\ UNCHANGED <<loads, nb, file, tables, metadata, disk, conn, paper, keywords, result>>

-----------------------------------------------------------------------------
(* The SQLModel walkthroughs *)

\* a cell of class definitions runs: a table name that metadata already
\* holds is redefined only under extend_existing
ClassCell ==
    \E k \in DOMAIN Cells :
        /\ Startable(k) /\ ClassesOf(Cells[k]) # NoTables
        /\ LET clash == /\ ~ExtendExisting(Cells[k])
                        /\ \E n \in DOMAIN ClassesOf(Cells[k]) : n \in DOMAIN metadata
           IN  /\ metadata' = IF clash THEN metadata
                              ELSE ClassesOf(Cells[k]) @@ metadata
               /\ err' = IF clash THEN "InvalidRequestError" ELSE "none"
               /\ pc' = IF clash THEN pc ELSE Completed(k)
        /\ op' = Cells[k]
        /\ UNCHANGED <<loads, nb, cell, j, file, tables, disk, conn, paper, keywords,
                       result>>

\* engine = create_engine(sqlite_url, echo=True): nothing is opened yet
CreateEngine ==
    \E k \in DOMAIN Cells :
        /\ Startable(k) /\ Cells[k] = "engine"
        /\ pc' = Completed(k)
        /\ err' = "none"
        /\ op' = "engine"
        /\ UNCHANGED <<loads, nb, cell, j, file, tables, metadata, disk, conn, paper,
                       keywords, result>>

\* SQLModel.metadata.create_all(engine)
CreateAll ==
    \E k \in DOMAIN Cells :
        /\ Startable(k)
        /\ Cells[k] \in {"create_all_a", "create_all_b", "create_all_c", "create_all"}
        /\ LET r == CreateIfNotExists(tables, metadata)
           IN  /\ tables' = r.tables
               /\ err' = r.err
               /\ pc' = IF r.err = "none" THEN Completed(k) ELSE pc
        /\ conn' = CreateRows(conn, metadata)
        /\ disk' = CreateRows(disk, metadata)
        /\ file' = TRUE
        /\ op' = Cells[k]
        /\ UNCHANGED <<loads, nb, cell, j, metadata, paper, keywords, result>>

\* notebook 03: first_article = Article(doi=paper_data["doi"], ...);
\* session.add(first_article); session.commit()
AddArticleStep ==
    /\ cell = "insert" /\ j = 0
    /\ LET r == IF paper.lacks \in {"doi", "title", "abstract"}
                THEN [db |-> conn, err |-> "KeyError"]
                ELSE InsertArticle(conn, [doi |-> paper.doi, title |-> paper.title])
       IN  /\ conn' = r.db
           /\ disk' = r.db
           /\ err' = r.err
           /\ cell' = AfterStep(cell, j, r.err).cell
           /\ j' = AfterStep(cell, j, r.err).j
    /\ op' = "insert_article"
    /\ UNCHANGED <<loads, nb, pc, file, tables, metadata, paper, keywords, result>>

\* a keyword that is stored is passed over, not inserted
AddKeywordUnlessStored(db, text) ==
    IF HasKeyword(db, lower(text)) THEN Ok(db) ELSE InsertKeyword(db, lower(text))

AddKeywordNoLower(db, text) == InsertKeyword(db, text)

\* notebook 03: keyword_obj = Keyword(keyword=keyword.lower());
\* session.add(keyword_obj); session.commit()
AddKeyword(db, text) == InsertKeyword(db, lower(text))

AddKeywordStep ==
    /\ cell = "insert" /\ j >= 1 /\ j <= Len(paper.keywords)
    /\ paper.lacks # "keywords"
    /\ LET r == AddKeyword(conn, paper.keywords[j])
       IN  /\ conn' = r.db
           /\ disk' = r.db
           /\ err' = r.err
           /\ cell' = AfterStep(cell, j, r.err).cell
           /\ j' = AfterStep(cell, j, r.err).j
    /\ op' = "insert_keyword"
    /\ UNCHANGED <<loads, nb, pc, file, tables, metadata, paper, keywords, result>>

\* notebook 03: the keyword loop is over and the session closes
EndInsert ==
    /\ cell = "insert" /\ j > Len(paper.keywords)
    /\ paper.lacks # "keywords"
    /\ cell' = "none"
    /\ j' = 0
    /\ pc' = Completed(IndexOf(cell))
    /\ err' = "none"
    /\ op' = "end"
    /\ UNCHANGED <<loads, nb, file, tables, metadata, disk, conn, paper, keywords, result>>

\* notebook 04: one iteration of `for paper in data`
LoadPaper ==
    /\ cell = "load_papers"
    /\ \E p \in Papers :
        LET objs == KeywordObjs(conn, p.keywords)
            r == AddAndCommit(conn, [doi |-> p.doi, title |-> p.title], objs)
        IN  /\ keywords' = objs
            /\ result' = IF p.keywords = <<>> THEN result ELSE NoResult
            /\ conn' = r.db
            /\ disk' = r.db
            /\ err' = r.err
            /\ cell' = AfterStep(cell, j, r.err).cell
            /\ j' = AfterStep(cell, j, r.err).j
    /\ op' = "load_paper"
    /\ UNCHANGED <<loads, nb, pc, file, tables, metadata, paper>>

\* notebook 04: data is exhausted and the session closes; the loop's name
\* keywords is read by no later cell
EndLoadPapers ==
    /\ cell = "load_papers"
    /\ cell' = "none"
    /\ j' = 0
    /\ keywords' = <<>>
    /\ pc' = Completed(IndexOf(cell))
    /\ err' = "none"
    /\ op' = "end"
    /\ UNCHANGED <<loads, nb, file, tables, metadata, disk, conn, paper, result>>

\* notebook 04: stmt = select(Article).where(...); result = session.exec(stmt).all()
Query ==
    \E k \in DOMAIN Cells, s \in Patterns :
        /\ Startable(k) /\ Cells[k] = "query"
        /\ result' = [s |-> s, rows |-> SelectArticles(conn, s)]
        /\ pc' = Completed(k)
        /\ err' = "none"
        /\ op' = "query"
        /\ UNCHANGED <<loads, nb, cell, j, file, tables, metadata, disk, conn, paper,
                       keywords>>

-----------------------------------------------------------------------------
(* A reader who changes a definition of a cell that has run, and runs the  *)
(* cell again                                                              *)

\* the definitions with one more column in every table
Edited(defs) == [n \in DOMAIN defs |-> defs[n] \cup {"added"}]

\* the CREATE TABLE IF NOT EXISTS articles statement with a column added
EditCreateTableCell ==
    \E k \in DOMAIN Cells :
        /\ Startable(k) /\ k < pc /\ Cells[k] = "create_articles"
        /\ LET defs == Edited(StatementsOf(Cells[k]))
               r == CreateIfNotExists(tables, defs)
           IN  /\ tables' = r.tables
               /\ err' = r.err
               /\ conn' = CreateRows(conn, defs)
               /\ disk' = IF r.err = "none" THEN conn' ELSE disk
        /\ op' = "create_articles_edited"
        /\ UNCHANGED <<loads, nb, pc, cell, j, file, metadata, paper, keywords,
                       result>>

\* a class cell with a field added to every class
EditClassCell ==
    \E k \in DOMAIN Cells :
        /\ Startable(k) /\ k < pc /\ ClassesOf(Cells[k]) # NoTables
        /\ LET defs == Edited(ClassesOf(Cells[k]))
               clash == /\ ~ExtendExisting(Cells[k])
                        /\ \E n \in DOMAIN defs : n \in DOMAIN metadata
           IN  /\ metadata' = IF clash THEN metadata ELSE defs @@ metadata
               /\ err' = IF clash THEN "InvalidRequestError" ELSE "none"
        /\ op' = "class_edited"
        /\ UNCHANGED <<loads, nb, pc, cell, j, file, tables, disk, conn, paper,
                       keywords, result>>

\* the whole notebook has run and is run again from its first cell in the
\* same kernel: every name stays bound
RunAgain ==
    /\ cell = "none" /\ pc = Len(Cells) + 1
    /\ pc' = 1
    /\ err' = "none"
    /\ op' = "run_again"
    /\ UNCHANGED <<loads, nb, cell, j, file, tables, metadata, disk, conn, paper,
                   keywords, result>>

NextSchema ==
    \/ RemoveDb
    \/ Restart
    \/ Connect
    \/ CreateTableCell
    \/ ClassCell
    \/ CreateEngine
    \/ CreateAll
    \/ EditCreateTableCell
    \/ EditClassCell

\* the schema cells of the walkthroughs, with definitions that may change
SpecSchema == Init /\ [][NextSchema]_vars

-----------------------------------------------------------------------------

Next ==
    \/ RemoveDb
    \/ Restart
    \/ Load
    \/ Connect
    \/ CreateTableCell
    \/ InsertArticleCell
    \/ BeginLoop
    \/ InsertKeywordStep
    \/ CommitKeywords
    \/ AssociateStep
    \/ EndAssociate
    \/ ClassCell
    \/ CreateEngine
    \/ CreateAll
    \/ AddArticleStep
    \/ AddKeywordStep
    \/ EndInsert
    \/ LoadPaper
    \/ EndLoadPapers
    \/ Query

Spec == Init /\ [][Next]_vars

\* The document holds a record that lacks a field.  The raw walkthrough
\* reads every field in its load cell (recent_paper = {...}), notebook 03
\* keeps the record and reads the fields in its insert cell
LoadMalformed ==
    \E k \in DOMAIN Cells :
        /\ Startable(k) /\ Cells[k] = "load"
        /\ loads < MaxLoads
        /\ loads' = loads + 1
        /\ paper' \in IF nb = "sql" THEN {paper}
                      ELSE {Without(p, f) : p \in Papers, f \in Fields}
        /\ pc' = IF nb = "sql" THEN pc ELSE Completed(k)
        /\ err' = IF nb = "sql" THEN "KeyError" ELSE "none"
        /\ op' = "load"
        /\ UNCHANGED <<nb, cell, j, file, tables, metadata, disk, conn,
                       keywords, result>>

\* notebook 03: `for keyword in paper_data["keywords"]` on a record without
\* keywords, after the article has been committed
KeywordsKeyError ==
    /\ cell = "insert" /\ j = 1
    /\ paper.lacks = "keywords"
    /\ err' = "KeyError"
    /\ cell' = AfterStep(cell, j, "KeyError").cell
    /\ j' = AfterStep(cell, j, "KeyError").j
    /\ op' = "read_keywords"
    /\ UNCHANGED <<loads, nb, pc, file, tables, metadata, disk, conn, paper,
                   keywords, result>>

\* notebook 04: an iteration of `for paper in data` on a record that lacks
\* a field: paper_data["keywords"] is read first, the other fields after the
\* keyword objects have been collected; nothing of the record is added
LoadPaperMalformed ==
    /\ cell = "load_papers"
    /\ \E kws \in {Without(p, f).keywords : p \in Papers, f \in Fields} :
        /\ keywords' = KeywordObjs(conn, kws)
        /\ result' = IF kws = <<>> THEN result ELSE NoResult
    /\ err' = "KeyError"
    /\ cell' = AfterStep(cell, j, "KeyError").cell
    /\ j' = AfterStep(cell, j, "KeyError").j
    /\ op' = "load_paper"
    /\ UNCHANGED <<loads, nb, pc, file, tables, metadata, disk, conn, paper>>

\* the sessions in which the document may hold records that lack a field
SpecMalformed ==
    Init /\ [][Next \/ LoadMalformed \/ KeywordsKeyError \/ LoadPaperMalformed]_vars

\* INSERT OR REPLACE: the stored row gives way to a new one
InsertOrReplaceKeyword(db, text) ==
    Ok([db EXCEPT !.keyword =
            Append(SelectSeq(@, LAMBDA r : r.keyword # text),
                   [id |-> NextId(db.keyword), keyword |-> text])])

\* INSERT OR IGNORE INTO keywords (keyword) VALUES (?): the insert, with a
\* conflict ignored in place of the error
InsertOrIgnoreKeyword(db, text) ==
    LET r == InsertRawKeyword(db, text)
    IN  IF r.err = "IntegrityError" THEN Ok(db) ELSE r

\* the keyword loop with the insert command of the walkthrough's tip
InsertOrIgnoreStep ==
    /\ cell = "insert_keywords" /\ j <= Len(paper.keywords)
    /\ LET r == InsertOrIgnoreKeyword(conn, paper.keywords[j])
       IN  /\ conn' = r.db
           /\ err' = r.err
           /\ cell' = AfterStep(cell, j, r.err).cell
           /\ j' = AfterStep(cell, j, r.err).j
    /\ op' = "insert_or_ignore"
    /\ UNCHANGED <<loads, nb, pc, file, tables, metadata, disk, paper, keywords, result>>

\* the sessions in which the reader follows the tip
SpecOrIgnore == Init /\ [][Next \/ InsertOrIgnoreStep]_vars

\* the sessions in which a notebook that has run through is run again
SpecRunAgain == Init /\ [][Next \/ RunAgain]_vars


-----------------------------------------------------------------------------
(* Properties *)

Stores == {conn, disk}

UniqueDoi(db) == \A i, k \in DOMAIN db.article :
    db.article[i].doi = db.article[k].doi => i = k

UniqueKeyword(db) == \A i, k \in DOMAIN db.keyword :
    db.keyword[i].keyword = db.keyword[k].keyword => i = k

AllLower(db) == \A i \in DOMAIN db.keyword :
    db.keyword[i].keyword = lower(db.keyword[i].keyword)

UniquePairs(rows) == \A i, k \in DOMAIN rows : rows[i] = rows[k] => i = k

\* the rows of before are the first rows of after, unchanged
KeepsRows(before, after) ==
    /\ Len(after) >= Len(before)
    /\ SubSeq(after, 1, Len(before)) = before

\* two texts of the list differ, and differ only in case
HasCaseVariants(kws) == \E a, b \in DOMAIN kws :
    a < b /\ kws[a] # kws[b] /\ lower(kws[a]) = lower(kws[b])

\* C1: an insert of an Article whose doi is already stored fails with a
\* uniqueness violation and leaves the article rows as they were, the row
\* inserted first included; a loader iteration that succeeds has added one
\* row with a doi that was not stored; no store ever holds two Article rows
\* with the same doi.
C1_DuplicateDoiRejected ==
    [][ /\ UniqueDoi(conn') /\ UniqueDoi(disk')
        /\ (op' = "insert_article" /\ HasDoi(conn, paper.doi)) =>
              /\ err' = "IntegrityError"
              /\ conn'.article = conn.article
              /\ disk'.article = disk.article
        /\ (op' = "load_paper" /\ err' = "none") =>
              /\ Len(conn'.article) = Len(conn.article) + 1
              /\ KeepsRows(conn.article, conn'.article)
              /\ ~HasDoi(conn, conn'.article[Len(conn'.article)].doi)
        /\ (op' = "load_paper" /\ err' # "none") =>
              /\ conn'.article = conn.article
              /\ disk'.article = disk.article
      ]_vars

\* a second insert with a stored doi and another title was refused, and the
\* first row is the one stored
C1_DuplicateDoiAttempted ==
    /\ op = "insert_article" /\ err = "IntegrityError"
    /\ \E i \in DOMAIN conn.article :
          /\ conn.article[i].doi = paper.doi
          /\ conn.article[i].title # paper.title
    /\ \E i \in DOMAIN disk.article :
          /\ disk.article[i].doi = paper.doi
          /\ disk.article[i].title # paper.title

\* C2: when the keyword list of the paper a SQLModel loader works on holds
\* two texts that differ only in case, no keyword insert of the loader
\* raises, and once the loader is through the store holds exactly one Keyword
\* row for the lower-cased text of every keyword of the paper.
C2_CaseVariantsOneRow ==
    (nb = "orm" /\ HasCaseVariants(paper.keywords)) =>
        /\ op = "insert_keyword" => err = "none"
        /\ op = "end" =>
              \A a \in DOMAIN paper.keywords :
                  Cardinality({i \in DOMAIN disk.keyword :
                      disk.keyword[i].keyword = lower(paper.keywords[a])}) = 1

\* C3 as stated: in every store every keyword value is its own lower-cased
\* form and no two Keyword rows hold the same value.
C3_LowerAndUnique ==
    \A db \in Stores : AllLower(db) /\ UniqueKeyword(db)

\* C3: in the stores the SQLModel loaders write, every keyword value is its
\* own lower-cased form and no two Keyword rows hold the same value.
C3_OrmLowerAndUnique ==
    nb \in {"orm", "rel"} =>
        \A db \in Stores : AllLower(db) /\ UniqueKeyword(db)

\* a SQLModel loader has stored a keyword whose text in the paper was not
\* lower-case
C3_UpperCaseInputStored ==
    /\ nb = "orm" /\ op = "insert_keyword" /\ err = "none" /\ j > 1
    /\ paper.keywords[j - 1] # lower(paper.keywords[j - 1])
    /\ HasKeyword(disk, lower(paper.keywords[j - 1]))

\* C4: every association row of every store references an Article row and a
\* Keyword row (an Author row, for articleauthor) of that store.
C4_ReferentialIntegrity ==
    \A db \in Stores :
        /\ \A i \in DOMAIN db.articlekeyword :
              /\ HasDoi(db, db.articlekeyword[i].article_doi)
              /\ HasKeywordId(db, db.articlekeyword[i].keyword_id)
        /\ \A i \in DOMAIN db.articleauthor :
              /\ HasDoi(db, db.articleauthor[i].article_doi)
              /\ \E k \in DOMAIN db.author :
                    db.author[k].id = db.articleauthor[i].author_id

\* C5: no store holds two articlekeyword rows with the same
\* (article_doi, keyword_id), nor two articleauthor rows with the same
\* (article_doi, author_id).
C5_NoDuplicateLinks ==
    \A db \in Stores :
        UniquePairs(db.articlekeyword) /\ UniquePairs(db.articleauthor)

\* the association loop met a pair that is already stored and was refused
C5_DuplicateLinkRefused ==
    /\ nb = "sql" /\ op = "associate" /\ err = "IntegrityError"
    /\ \E k \in DOMAIN paper.keywords :
          HasLink(conn, paper.doi, LookupKeyword(conn, paper.keywords[k]).id)


\* C6: in the keyword list the loader of notebook 04 builds for a paper, a
\* text that stands earlier in the list is never given a new Keyword object:
\* the later element reuses a stored row.
C6_SeenKeywordReused ==
    nb = "rel" =>
        \A a, b \in DOMAIN keywords :
            (a < b /\ keywords[a].keyword = keywords[b].keyword) =>
                keywords[b].id # NoId

\* C7 as stated: the association loop never stops on a uniqueness violation.
C7_DuplicateLinkTolerated ==
    ~(op = "associate" /\ err = "IntegrityError")

\* C7: an association insert whose composite key is already stored raises
\* IntegrityError, ends the loop there and leaves the association rows as
\* they were; so does a loader iteration of notebook 04 whose keyword list
\* holds the same stored Keyword twice, which leaves the whole store as it
\* was.
C7_DuplicateLinkRaises ==
    [][ /\ ( /\ op' = "associate"
             /\ HasKeyword(conn, paper.keywords[j])
             /\ HasLink(conn, paper.doi,
                        LookupKeyword(conn, paper.keywords[j]).id) ) =>
              /\ err' = "IntegrityError"
              /\ cell' = "none"
              /\ conn'.articlekeyword = conn.articlekeyword
              /\ disk'.articlekeyword = disk.articlekeyword
        /\ ( /\ op' = "load_paper"
             /\ \E a, b \in DOMAIN keywords' :
                   a < b /\ keywords'[a] = keywords'[b] /\ keywords'[a].id # NoId ) =>
              /\ err' = "IntegrityError"
              /\ cell' = "none"
              /\ conn' = conn
              /\ disk' = disk
      ]_vars

\* the raw loop stopped at a stored pair of a paper with two keywords
C7_LoopStoppedAtDuplicate ==
    /\ nb = "sql" /\ op = "associate" /\ err = "IntegrityError"
    /\ cell = "none"
    /\ Len(paper.keywords) = 2
    /\ paper.keywords[1] # paper.keywords[2]
    /\ HasLink(conn, paper.doi, LookupKeyword(conn, paper.keywords[1]).id)

\* C8 as stated: every association row a step inserts references an Article
\* row and a Keyword row that were committed before the step.
C8_ParentsCommittedFirst ==
    [][ \A i \in DOMAIN conn'.articlekeyword :
            i > Len(conn.articlekeyword) =>
                /\ HasDoi(disk, conn'.articlekeyword[i].article_doi)
                /\ HasKeywordId(disk, conn'.articlekeyword[i].keyword_id)
      ]_vars

\* C8: the persisted store holds no articlekeyword row whose Keyword row is
\* not persisted, and in the store of notebook 04 none whose Article row is
\* not persisted.
C8_PersistedLinksHaveParents ==
    \A i \in DOMAIN disk.articlekeyword :
        /\ HasKeywordId(disk, disk.articlekeyword[i].keyword_id)
        /\ nb = "rel" => HasDoi(disk, disk.articlekeyword[i].article_doi)

\* a commit of notebook 04 that wrote an article, a new keyword and the row
\* that links them is persisted
C8_LinkPersistedWithParents ==
    /\ nb = "rel" /\ op = "load_paper" /\ err = "none"
    /\ \E i \in DOMAIN keywords : keywords[i].id = NoId
    /\ disk.articlekeyword # <<>>

Elements(rows) == {rows[i] : i \in DOMAIN rows}

\* s stands in t, character for character
IsSubstring(s, t) == \E i \in 0..(Len(t) - Len(s)) :
    SubSeq(t, i + 1, i + Len(s)) = s

\* the texts of the keywords linked to article a
LinkedTexts(db, a) ==
    {KeywordOf(db, db.articlekeyword[i].keyword_id).keyword :
        i \in {k \in DOMAIN db.articlekeyword :
                  /\ db.articlekeyword[k].article_doi = a.doi
                  /\ HasKeywordId(db, db.articlekeyword[k].keyword_id)}}

Wildcards == {"%", "_"}

\* C9 as stated: the query returns the articles with a linked keyword whose
\* stored text contains s, each once.
C9_ExactSubstring ==
    op = "query" =>
        /\ Elements(result.rows) =
              {a \in Elements(conn.article) :
                  \E t \in LinkedTexts(conn, a) : IsSubstring(result.s, t)}
        /\ UniquePairs(result.rows)

\* C9: for s without the LIKE wildcards, the query returns the articles with
\* a linked keyword whose stored text contains s when ASCII case is ignored,
\* each once.
C9_LikeSubstring ==
    (op = "query" /\ \A i \in DOMAIN result.s : result.s[i] \notin Wildcards) =>
        /\ Elements(result.rows) =
              {a \in Elements(conn.article) :
                  \E t \in LinkedTexts(conn, a) :
                      IsSubstring(lower(result.s), lower(t))}
        /\ UniquePairs(result.rows)

\* the query told two stored articles with keywords apart, and returned the
\* one it matched, an article with two keywords, once
C9_QueryTellsApart ==
    /\ op = "query" /\ result.s = <<"b">>
    /\ Len(conn.article) = 2 /\ Len(result.rows) = 1
    /\ Cardinality(LinkedTexts(conn, result.rows[1])) = 2
    /\ \E a \in Elements(conn.article) :
          a \notin Elements(result.rows) /\ LinkedTexts(conn, a) # {}

IsCreateCell(c) == StatementsOf(c) # NoTables \/ c \in {"create_all", "create_all_a", "create_all_b", "create_all_c"}

\* the table definitions a schema cell asks for
Requested(c) == IF StatementsOf(c) # NoTables THEN StatementsOf(c) ELSE metadata

\* C10: a schema initialization whose tables all exist with the definitions
\* asked for raises nothing and leaves the tables and their definitions as
\* they were.
C10_CreateIdempotent ==
    [][ ( /\ IsCreateCell(op')
          /\ \A n \in DOMAIN Requested(op') :
                n \in DOMAIN tables /\ tables[n] = Requested(op')[n] ) =>
            (err' = "none" /\ tables' = tables)
      ]_vars

\* a schema cell has run again after the cells behind it
C10_CreateRunAgain ==
    /\ IsCreateCell(op) /\ err = "none"
    /\ pc > IndexOf(op) + 1
    /\ \A n \in DOMAIN Requested(op) :
          n \in DOMAIN tables /\ tables[n] = Requested(op)[n]
    /\ conn.article # <<>>


\* C11: a schema initialization changes no row: the rows the connection sees
\* are the same before and after it, every row of the file is still in the
\* file, and create_all leaves the file's rows exactly as they were (the raw
\* cell's commit adds to the file the rows the connection had pending).
C11_CreateKeepsRows ==
    [][ IsCreateCell(op') =>
            /\ conn' = conn
            /\ \A f \in DOMAIN disk : KeepsRows(disk[f], disk'[f])
            /\ nb \in {"orm", "rel"} => disk' = disk
      ]_vars

\* create_all has run again on a store that holds two articles and a link
C11_CreateOnPopulatedStore ==
    /\ nb = "rel" /\ op = "create_all" /\ err = "none"
    /\ pc > IndexOf(op) + 1
    /\ Len(disk.article) = 2 /\ disk.articlekeyword # <<>>


\* the definitions a schema step asks for, the changed statement included
Asked(c) ==
    IF c = "create_articles_edited"
    THEN Edited(StatementsOf("create_articles"))
    ELSE Requested(c)

IsSchemaStep(c) == IsCreateCell(c) \/ c = "create_articles_edited"

\* a table of the store whose definition differs from the one asked for
Conflicts(c) == \E n \in DOMAIN Asked(c) :
    n \in DOMAIN tables /\ tables[n] # Asked(c)[n]

\* C12 as stated: a schema initialization that is given a definition that
\* conflicts with the one an existing table has raises an error.
C12_ConflictRaises ==
    [][ (IsSchemaStep(op') /\ Conflicts(op')) => err' # "none" ]_vars

\* C12: a schema initialization that is given a definition that conflicts
\* with the one an existing table has raises nothing and leaves every table
\* of the store with the definition it had.
C12_ConflictKeepsOld ==
    [][ (IsSchemaStep(op') /\ Conflicts(op')) =>
            /\ err' = "none"
            /\ \A n \in DOMAIN tables : tables'[n] = tables[n]
      ]_vars

\* create_all has run with an Article class that has a field the stored
\* table lacks, and the stored table is as it was
C12_ConflictingCreateHasRun ==
    /\ IsCreateCell(op) /\ err = "none"
    /\ "article" \in DOMAIN metadata /\ "article" \in DOMAIN tables
    /\ metadata["article"] = ArticleColumns \cup {"added"}
    /\ tables["article"] = ArticleColumns


\* the cells between remove_db and the first insert
IsSetupCell(c) ==
    IsCreateCell(c) \/ ClassesOf(c) # NoTables \/ c \in {"connect", "engine"}

\* C13: remove_db leaves no table and no row, whatever the store held, and
\* the cells that follow it up to the end of schema initialization (connect,
\* engine, class and schema cells) add no row: after remove_db and schema
\* initialization every table of the store has zero rows.
C13_RemoveThenCreateIsEmpty ==
    [][ /\ op' = "remove_db" =>
              /\ ~file' /\ tables' = NoTables
              /\ conn' = EmptyDb /\ disk' = EmptyDb
        /\ (IsSetupCell(op') /\ conn = EmptyDb /\ disk = EmptyDb) =>
              (conn' = EmptyDb /\ disk' = EmptyDb)
      ]_vars

\* notebook 04 is in its second run in one kernel: the result of the first
\* run's query is still bound, and the store is empty after remove_db and
\* create_all
C13_EmptyAfterSecondSetup ==
    /\ nb = "rel" /\ op = "create_all" /\ err = "none"
    /\ pc = IndexOf(op) + 1
    /\ result.rows # <<>>
    /\ conn = EmptyDb /\ disk = EmptyDb


InsertSteps == {"insert_article", "insert_keyword", "associate", "load_paper"}

\* C14: an insert or commit that raises ends the cell there: the loop is
\* left (no later keyword or paper is processed), the cell does not
\* complete, the failed statement has changed no row, and the exception is
\* what the cell returns; a keyword the notebook-03 loader finds stored
\* raises IntegrityError.
C14_ErrorAbortsLoop ==
    [][ /\ (op' \in InsertSteps /\ err' # "none") =>
              /\ cell' = "none" /\ j' = 0
              /\ pc' = pc
              /\ conn' = conn /\ disk' = disk
        /\ ( /\ nb = "orm" /\ op' = "insert_keyword"
             /\ HasKeyword(conn, lower(paper.keywords[j])) ) =>
              err' = "IntegrityError"
      ]_vars

\* the notebook-03 loader stopped at the first keyword of a paper with two
\* keywords, and the second keyword was never stored
C14_SecondKeywordNotProcessed ==
    /\ nb = "orm" /\ op = "insert_keyword" /\ err = "IntegrityError"
    /\ cell = "none"
    /\ Len(paper.keywords) = 2
    /\ HasKeyword(disk, lower(paper.keywords[1]))
    /\ ~HasKeyword(disk, lower(paper.keywords[2]))
    /\ HasDoi(disk, paper.doi)

\* C15: a record that lacks a field is signalled (KeyError) before any row
\* of the document is written: the error arises in the load cell, or at the
\* first write of the cell that stores the document
C15_ShapeErrorBeforeAnyWrite ==
    [][err' = "KeyError" =>
          \/ cell = "none"
          \/ cell = "insert" /\ j = 0
          \/ cell = "load_papers" /\ j = 1]_vars

\* the keyword texts of the rows
KeywordTexts(rows) == {rows[i].keyword : i \in DOMAIN rows}

\* C16: the loader writes one Article row per record, one Keyword row per
\* distinct normalized keyword text and one ArticleKeyword row per pair of
\* article and distinct keyword.  Notebook 04: a record loaded into a store
\* without articles (every doi is new there) is stored so; notebook 03: when
\* the insert cell has finished, the paper is linked to each of its keywords
C16_OneRowPerEntity ==
    [][ /\ (nb = "rel" /\ op' = "load_paper" /\ conn.article = <<>>) =>
              /\ err' = "none"
              /\ Len(disk'.article) = 1
              /\ UniqueKeyword(disk')
              /\ KeywordTexts(disk'.keyword) =
                     KeywordTexts(disk.keyword) \cup KeywordTexts(keywords')
              /\ LinkedTexts(disk', disk'.article[1]) = KeywordTexts(keywords')
              /\ Len(disk'.articlekeyword) =
                     Cardinality(KeywordTexts(keywords'))
        /\ (nb = "orm" /\ cell = "insert" /\ op' = "end") =>
              \A i \in DOMAIN paper.keywords :
                  lower(paper.keywords[i]) \in
                      LinkedTexts(disk', [doi |-> paper.doi]) ]_vars

\* the steps with which an insert cell finishes
InsertCellEnds == {"insert_article", "commit", "end"}

\* C17: when an insert cell has finished without error, every insert it
\* executed is committed: the connection holds no row that the file lacks
C17_InsertsCommitted ==
    (op \in InsertCellEnds /\ cell = "none" /\ err = "none") => conn = disk

\* C18: the raw keyword loop is one transaction: the commit that ends the
\* loop persists every keyword of the paper, and keyword rows reach the file
\* in no other way, so the inserts of a loop that failed are never persisted
C18_AllOrNothing ==
    [][nb = "sql" =>
          /\ (cell = "insert_keywords" /\ op' = "commit") =>
                 \A i \in DOMAIN paper.keywords :
                     HasKeyword(disk', paper.keywords[i])
          /\ disk'.keyword # disk.keyword =>
                 \/ cell = "insert_keywords" /\ op' = "commit"
                 \/ op' = "remove_db"]_vars

-----------------------------------------------------------------------------
(* The relationships of notebook 04 between articles and authors.  No cell *)
(* stores an author, so the stores the relationships are read from are     *)
(* drawn from a bounded set.                                               *)

MaxAuthors == 2
MaxLinks == 2

HasAuthorLink(db, doi, id) == \E i \in DOMAIN db.articleauthor :
    /\ db.articleauthor[i].article_doi = doi
    /\ db.articleauthor[i].author_id = id

\* authors: List["Author"] = Relationship(back_populates="articles",
\*                                        link_model=ArticleAuthor)
ArticleAuthors(db, x) ==
    SelectSeq(db.author, LAMBDA a : HasAuthorLink(db, x.doi, a.id))

\* the relationship declared with link_model=ArticleKeyword
AuthorArticlesThroughKeywords(db, a) ==
    SelectSeq(db.article, LAMBDA x : HasLink(db, x.doi, a.id))

\* articles: List["Article"] = Relationship(back_populates="authors",
\*                                          link_model=ArticleAuthor)
AuthorArticles(db, a) ==
    SelectSeq(db.article, LAMBDA x : HasAuthorLink(db, x.doi, a.id))

\* rows of the article, author and articleauthor tables; a link row may name
\* a doi or an id that no row has (foreign keys are not enforced)
ArticleRows == <<[doi |-> "d1", title |-> "t1"], [doi |-> "d2", title |-> "t1"]>>
AuthorRows == [i \in 1..MaxAuthors |-> [id |-> i]]
AuthorLinks == [article_doi : {"d1", "d2"}, author_id : 1..MaxAuthors]
LinkRows == UNION {{l \in [1..n -> AuthorLinks] : UniquePairs(l)} : n \in 0..MaxLinks}
AuthorStores ==
    {[EmptyDb EXCEPT !.article = SubSeq(ArticleRows, 1, n),
                     !.author = SubSeq(AuthorRows, 1, m),
                     !.articleauthor = l] :
        n \in 0..Len(ArticleRows), m \in 0..MaxAuthors, l \in LinkRows}

\* notebook 04 after its class cell and create_all, on a committed store
InitAuthors ==
    /\ nb = "rel"
    /\ pc = IndexOf("load_papers")
    /\ cell = "none"
    /\ j = 0
    /\ file = TRUE
    /\ metadata = ClassesOf("classes")
    /\ tables = CreateIfNotExists(NoTables, ClassesOf("classes")).tables
    /\ disk \in AuthorStores
    /\ conn = disk
    /\ paper = NoPaper
    /\ keywords = <<>>
    /\ result = NoResult
    /\ loads = 0
    /\ err = "none"
    /\ op = "create_all"

\* article.authors is read in a new session
ReadAuthors ==
    \E i \in DOMAIN conn.article :
        /\ result' = [of |-> conn.article[i],
                      rows |-> ArticleAuthors(conn, conn.article[i])]
        /\ err' = "none"
        /\ op' = "authors"
        /\ UNCHANGED <<loads, nb, pc, cell, j, file, tables, metadata, disk, conn,
                       paper, keywords>>

\* author.articles is read in a new session
ReadArticles ==
    \E i \in DOMAIN conn.author :
        /\ result' = [of |-> conn.author[i],
                      rows |-> AuthorArticles(conn, conn.author[i])]
        /\ err' = "none"
        /\ op' = "articles"
        /\ UNCHANGED <<loads, nb, pc, cell, j, file, tables, metadata, disk, conn,
                       paper, keywords>>

NextAuthors ==
    \/ ReadAuthors
    \/ ReadArticles

SpecAuthors == InitAuthors /\ [][NextAuthors]_vars

C20_RunAgainAsFirstRun ==
    [][ ( /\ cell = "none" /\ pc \in DOMAIN Cells
          /\ op' = Cells[pc]
          /\ (op' = "remove_db" \/ IsSetupCell(op')) ) =>
            /\ err' = "none"
            /\ pc' = pc + 1
            /\ conn' = EmptyDb /\ disk' = EmptyDb ]_vars

UniqueIds(rows) == \A i, k \in DOMAIN rows : rows[i].id = rows[k].id => i = k

\* every row of before is in after under the id it had
KeepsIds(before, after) == \A i \in DOMAIN before : \A k \in DOMAIN after :
    after[k].id = before[i].id => after[k] = before[i]

\* C21: a Keyword inserted without an id gets one from the store: in the
\* connection and in the file every keyword row has an id, the ids of a
\* table are pairwise distinct, and as long as the file is not removed the
\* id of a committed row is the id of no other row (in the connection: as
\* long as the kernel is not restarted either)
C21_IdsDistinctAndStable ==
    [][ /\ \A db \in {conn', disk'} :
              /\ UniqueIds(db.keyword)
              /\ \A i \in DOMAIN db.keyword : db.keyword[i].id # NoId
        /\ op' # "remove_db" => KeepsIds(disk.keyword, disk'.keyword)
        /\ op' \notin {"remove_db", "restart"} =>
              KeepsIds(conn.keyword, conn'.keyword) ]_vars

\* two keywords were inserted without ids, in each walkthrough's own way,
\* and are committed
C21_TwoKeywordsStored ==
    /\ op \in {"insert_keyword", "commit", "load_paper"} /\ err = "none"
    /\ Len(disk.keyword) = 2
    /\ disk.keyword[1].keyword # disk.keyword[2].keyword

\* C22: INSERT OR IGNORE INTO keywords raises no error; for a text that is
\* stored it leaves the keywords table as it was, for a new text it adds
\* exactly one row, with that text; no other table changes
C22_InsertOrIgnoreIdempotent ==
    [][op' = "insert_or_ignore" =>
          /\ err' = "none"
          /\ IF HasKeyword(conn, paper.keywords[j])
             THEN conn'.keyword = conn.keyword
             ELSE /\ Len(conn'.keyword) = Len(conn.keyword) + 1
                  /\ KeepsRows(conn.keyword, conn'.keyword)
                  /\ conn'.keyword[Len(conn'.keyword)].keyword = paper.keywords[j]
          /\ conn' = [conn EXCEPT !.keyword = conn'.keyword]
          /\ disk' = disk ]_vars

\* the second keyword of the paper is the first one again, and the loop has
\* gone past it with one row in the table
C22_StoredTextIgnored ==
    /\ op = "insert_or_ignore" /\ cell = "insert_keywords" /\ j = 3
    /\ paper.keywords[1] = paper.keywords[2]
    /\ Len(conn.keyword) = 1

\* C23: in the raw walkthrough run with its one paper, the keyword cell has
\* inserted every keyword of the paper when it commits, so each lookup of
\* the association cell finds a row (fetchone() is never None), and the
\* association row inserted carries the paper's DOI and the id of the
\* keyword row whose text is that keyword
C23_LookupFindsInsertedKeyword ==
    [][nb = "sql" /\ loads = 1 =>
          /\ (cell = "insert_keywords" /\ op' = "commit") =>
                 \A i \in DOMAIN paper.keywords :
                     HasKeyword(conn', paper.keywords[i])
          /\ op' = "associate" =>
                 /\ HasKeyword(conn, paper.keywords[j])
                 /\ err' # "TypeError"
                 /\ err' = "none" =>
                        \E i \in DOMAIN conn.keyword :
                            /\ conn.keyword[i].keyword = paper.keywords[j]
                            /\ conn'.articlekeyword =
                                   Append(conn.articlekeyword,
                                          [article_doi |-> paper.doi,
                                           keyword_id |-> conn.keyword[i].id]) ]_vars

\* the association cell has linked the paper to both of its keywords
C23_BothKeywordsLinked ==
    /\ nb = "sql" /\ loads = 1 /\ op = "end" /\ err = "none"
    /\ pc = IndexOf("associate") + 1
    /\ Len(paper.keywords) = 2
    /\ Len(conn.articlekeyword) = 2
    /\ conn.articlekeyword[1].keyword_id # conn.articlekeyword[2].keyword_id

CreateAllCells == {"create_all", "create_all_a", "create_all_b", "create_all_c"}

\* the tables the classes declared just before a create_all cell stand for
ExpectedOf(c) ==
    CASE c = "create_all_a" -> {"article"}
      [] c = "create_all_b" -> {"author", "keyword"}
      [] c = "create_all_c" -> {"articlekeyword", "articleauthor"}
      [] OTHER -> DOMAIN ClassesOf("classes")

\* C25: create_all creates exactly the declared tables that the store does
\* not have yet, with their declared columns, and leaves the tables that
\* exist and every row alone; run in its turn, the first call creates
\* article, the second only author and keyword, the third only
\* articlekeyword and articleauthor
C25_CreateAllCreatesMissing ==
    [][op' \in CreateAllCells =>
          /\ err' = "none"
          /\ DOMAIN tables' = DOMAIN tables \cup DOMAIN metadata
          /\ \A n \in DOMAIN tables : tables'[n] = tables[n]
          /\ \A n \in DOMAIN tables' \ DOMAIN tables : tables'[n] = metadata[n]
          /\ conn' = conn /\ disk' = disk
          /\ pc = IndexOf(op') =>
                /\ DOMAIN tables' \ DOMAIN tables \subseteq ExpectedOf(op')
                /\ DOMAIN tables \cap ExpectedOf(op') = {} =>
                       DOMAIN tables' \ DOMAIN tables = ExpectedOf(op') ]_vars

\* the second create_all of notebook 03 has run in its turn on a store that
\* held the article table
C25_SecondCreateAll ==
    /\ nb = "orm" /\ op = "create_all_b" /\ err = "none"
    /\ pc = IndexOf(op) + 1
    /\ DOMAIN tables = {"article", "author", "keyword"}

StoreFields == DOMAIN EmptyDb

\* C26: between two calls of remove_db() the store only grows: whatever
\* cell or step runs, every committed row is still there afterwards,
\* unchanged and in its place
C26_StoreOnlyGrows ==
    [][op' # "remove_db" =>
          \A f \in StoreFields : KeepsRows(disk[f], disk'[f])]_vars

\* a second paper has been committed after the first
C26_StoreHasGrownTwice ==
    /\ op \in {"load_paper", "insert_article"} /\ err = "none"
    /\ Len(disk.article) = 2

\* C27: the loader of notebook 04 commits once per paper.  An iteration
\* that fails, on a constraint or on a missing field, leaves the file as the
\* papers before it left it, stores no row of its paper and ends the loop,
\* so that no later paper is processed; an iteration that succeeds leaves
\* nothing pending and has added the article and a link to each of its
\* keywords to the rows of the papers before it
C27_CommitPerPaper ==
    [][(nb = "rel" /\ op' = "load_paper") =>
          /\ conn = disk /\ conn' = disk'
          /\ err' # "none" =>
                /\ disk' = disk
                /\ cell' = "none" /\ pc' = pc
          /\ err' = "none" =>
                /\ \A f \in StoreFields : KeepsRows(disk[f], disk'[f])
                /\ Len(disk'.article) = Len(disk.article) + 1
                /\ LinkedTexts(disk', disk'.article[Len(disk'.article)]) =
                       KeywordTexts(keywords') ]_vars

\* the first paper is committed with its keyword, and the iteration of a
\* second record, which lacks a field, has failed
C27_SecondRecordMalformed ==
    /\ nb = "rel" /\ op = "load_paper" /\ err = "KeyError"
    /\ Len(disk.article) = 1
    /\ Len(disk.articlekeyword) = 1

\* C28: the loader of notebook 03 commits the article and then each keyword
\* in a transaction of its own, in input order.  Nothing is pending before
\* or after a step; a step that succeeds has added exactly its one row, the
\* article first and keyword j at step j, so that a paper with n keywords
\* takes n + 1 commits; when the insert of keyword i fails, the file is left
\* with the article and the keywords before i, nothing is added for keyword
\* i or a later one, and the loop is over
C28_CommitPerRow ==
    [][(nb = "orm" /\ op' \in {"insert_article", "insert_keyword"}) =>
          /\ conn = disk /\ conn' = disk'
          /\ (op' = "insert_article") <=> (j = 0)
          /\ err' = "none" =>
                /\ j' = j + 1
                /\ \A f \in StoreFields : KeepsRows(disk[f], disk'[f])
                /\ IF j = 0
                   THEN /\ disk' = [disk EXCEPT !.article = disk'.article]
                        /\ Len(disk'.article) = Len(disk.article) + 1
                        /\ disk'.article[Len(disk'.article)].doi = paper.doi
                   ELSE /\ disk' = [disk EXCEPT !.keyword = disk'.keyword]
                        /\ Len(disk'.keyword) = Len(disk.keyword) + 1
                        /\ disk'.keyword[Len(disk'.keyword)].keyword =
                               lower(paper.keywords[j])
          /\ (err' # "none" /\ j >= 1) =>
                /\ disk' = disk
                /\ cell' = "none"
                /\ HasDoi(disk', paper.doi)
                /\ \A m \in 1..(j - 1) : HasKeyword(disk', lower(paper.keywords[m]))
          /\ (cell' = "insert" /\ j' = Len(paper.keywords) + 1) =>
                /\ HasDoi(disk', paper.doi)
                /\ \A m \in DOMAIN paper.keywords :
                       HasKeyword(disk', lower(paper.keywords[m])) ]_vars

\* the insert of the second keyword of the second paper has failed: the
\* paper and its first keyword are in the file
C28_SecondKeywordFailed ==
    /\ nb = "orm" /\ op = "insert_keyword" /\ err = "IntegrityError"
    /\ Len(paper.keywords) = 2
    /\ Len(disk.article) = 2 /\ disk.article[2].doi = paper.doi
    /\ Len(disk.keyword) = 2
    /\ disk.keyword[2].keyword = lower(paper.keywords[1])
    /\ disk.keyword[1].keyword = lower(paper.keywords[2])

\* C29: remove_db() never raises and leaves no database file: called when
\* the file does not exist it changes nothing, called when it exists it
\* removes the file with its tables and rows; it changes nothing else (the
\* names bound in the kernel, the loaded document).  A store without a file
\* holds nothing, so a second call finds nothing to remove
C29_RemoveDbIdempotent ==
    [][op' = "remove_db" =>
          /\ err' = "none"
          /\ pc' = pc + 1
          /\ ~file'
          /\ ~file => (disk' = disk /\ conn' = conn /\ tables' = tables)
          /\ file => (disk' = EmptyDb /\ conn' = EmptyDb /\ tables' = NoTables)
          /\ ~file' => (disk' = EmptyDb /\ tables' = NoTables)
          /\ UNCHANGED <<nb, cell, j, metadata, paper, keywords, result, loads>> ]_vars

\* remove_db() has removed the file of a run in which a paper was loaded
C29_FileOfEarlierRunRemoved ==
    /\ op = "remove_db" /\ err = "none"
    /\ loads >= 1 /\ paper # NoPaper
    /\ ~file /\ disk = EmptyDb /\ tables = NoTables
=============================================================================
